---- MODULE Spec2Model ----
(***************************************************************************)
(* rsolver: a toy SAT solver.  A formula text is tokenized, its literal    *)
(* names are collected into a registry, the recursive-descent evaluator    *)
(* (evalClause / eval / evalMain) interprets the token vector under a      *)
(* WorkingValues assignment, and solve() enumerates assignments depth      *)
(* first, freezing one literal per recursion level (true before false).    *)
(*                                                                         *)
(* The token cursor `it` of the C++ code is a position 1..Len(tokens),     *)
(* with Len(tokens)+1 standing for tokens.end().  Literal indexes and      *)
(* mStartOfThawed keep the 0-based values of the code.                     *)
(***************************************************************************)
EXTENDS Integers, Sequences, FiniteSets, TLC

VARIABLES tokens, litnames, pc, stack, ret, gnEvals, evalLog, exitCode, output,
          run, firstRun, argv, stdin, call, mLine, mpPosition

vars == <<tokens, litnames, pc, stack, ret, gnEvals, evalLog, exitCode, output,
          run, firstRun, argv, stdin, call, mLine, mpPosition>>

\* The state of main, parseAndSolveLine and the Tokenizer.
front == <<argv, stdin, call, mLine, mpPosition>>

\* ------------------------------------------------------------------ bounds
\* Longest token sequence enumerated exhaustively.
MaxLen == 5

\* Longest input text enumerated exhaustively.
MaxText == 4

\* ------------------------------------------------------- program constants
EXIT_COMMAND_LINE_FAIL == 0
EXIT_CANNOT_PARSE_INPUT == 3
EXIT_SATISFIABLE == 0
EXIT_UNSATISFIABLE == 20

\* Exit status of a process killed by the memory fault an out-of-bounds read
\* of the token vector can raise (128 + SIGSEGV); not a constant of the code.
ExitFault == 128 + 11

\* Faulty variant: false is tried before true.
gBoolsFalseFirst == <<FALSE, TRUE>>

\* Faulty variant: the false branch is never tried.
gBoolsTrueOnly == <<TRUE, TRUE>>

\* Faulty variant: the true branch is never tried.
gBoolsFalseOnly == <<FALSE, FALSE>>

gBools == <<TRUE, FALSE>>
gnBools == Len(gBools)

\* ------------------------------------------------------------------ tokens
\* A Token: mType, mLiteral, mLitIndex.  mLitIndex is only ever read on
\* Literal tokens, after assignLiteralIndexes has set it; -1 stands for the
\* value before that.
Tok(type) == [type |-> type, name |-> "", idx |-> -1]
Lit(name) == [type |-> "Literal", name |-> name, idx |-> -1]

typeToString(type) ==
    CASE type = "Unknown" -> "Unknown"
      [] type = "And" -> "&"
      [] type = "Or" -> "|"
      [] type = "Not" -> "~"
      [] type = "Literal" -> "Literal"
      [] type = "OpenBracket" -> "("
      [] type = "CloseBracket" -> ")"
      [] OTHER -> "NotHandled"

TokenToString(tok) == IF tok.type = "Literal" THEN tok.name ELSE typeToString(tok.type)

\* --------------------------------------------------------------- tokenizer
\* A text is a sequence of characters (one-character strings).  The
\* Tokenizer reads it as a C string: mpPosition is a position 1..Len(line),
\* and Len(line)+1 holds the terminating NUL.
NUL == "NUL"

CharAt(line, pos) == IF pos > Len(line) THEN NUL ELSE line[pos]

Letters == {"a", "b"}
Digits == {"1"}

isspace(c) == c \in {" ", "\t", "\n", "\r"}
isalpha(c) == c \in Letters
isalnum(c) == c \in Letters \cup Digits

\* flatten: the arguments joined by single spaces (no space is put before
\* an argument while out is still empty).
RECURSIVE flattenFrom(_, _, _)
flattenFrom(args, i, out) ==
    IF i > Len(args) THEN out
    ELSE flattenFrom(args, i + 1, (IF out # <<>> THEN out \o <<" ">> ELSE out) \o args[i])

flatten(args) == flattenFrom(args, 1, <<>>)

\* readFile: carriage returns are dropped, newlines become spaces.
RECURSIVE readFileFrom(_, _, _)
readFileFrom(f, i, contents) ==
    IF i > Len(f) THEN contents
    ELSE IF f[i] = "\r" THEN readFileFrom(f, i + 1, contents)
    ELSE readFileFrom(f, i + 1, Append(contents, IF f[i] = "\n" THEN " " ELSE f[i]))

readFile(f) == readFileFrom(f, 1, <<>>)

RECURSIVE literalRun(_, _, _)
\* Faulty variant: only letters continue a literal.
literalRunLettersOnly(line, pos, name) ==
    IF ~isalpha(CharAt(line, pos)) THEN [tok |-> Lit(name), pos |-> pos]
    ELSE literalRun(line, pos + 1, name \o CharAt(line, pos))

\* The inner loop of getToken: the literal grows while isalnum holds.
literalRun(line, pos, name) ==
    IF ~isalnum(CharAt(line, pos)) THEN [tok |-> Lit(name), pos |-> pos]
    ELSE literalRun(line, pos + 1, name \o CharAt(line, pos))

\* Tokenizer::getToken from position pos: the token and the new position.
RECURSIVE getToken(_, _)
getToken(line, pos) ==
    LET c == CharAt(line, pos) IN
    IF c = NUL THEN [tok |-> Tok("Eof"), pos |-> pos]
    ELSE IF isspace(c) THEN getToken(line, pos + 1)
    ELSE IF c = "&" THEN [tok |-> Tok("And"), pos |-> pos + 1]
    ELSE IF c = "|" THEN [tok |-> Tok("Or"), pos |-> pos + 1]
    ELSE IF c = "~" THEN [tok |-> Tok("Not"), pos |-> pos + 1]
    ELSE IF c = "(" THEN [tok |-> Tok("OpenBracket"), pos |-> pos + 1]
    ELSE IF c = ")" THEN [tok |-> Tok("CloseBracket"), pos |-> pos + 1]
    ELSE IF isalpha(c) THEN literalRun(line, pos + 1, c)
    ELSE [tok |-> Tok("Unknown"), pos |-> pos + 1]

\* ---------------------------------------------------------------- registry
RECURSIVE findFrom(_, _, _)
findFrom(names, target, i) ==
    IF i > Len(names) THEN -1
    ELSE IF names[i] = target THEN i - 1
    ELSE findFrom(names, target, i + 1)

findLitName(names, target) == findFrom(names, target, 1)

RECURSIVE getLitNamesFrom(_, _, _)
\* Faulty variant: a name is registered at each of its occurrences.
getLitNamesFromEvery(toks, i, names) ==
    IF i > Len(toks) THEN names
    ELSE IF toks[i].type = "Literal"
         THEN getLitNamesFrom(toks, i + 1, Append(names, toks[i].name))
    ELSE getLitNamesFrom(toks, i + 1, names)

getLitNamesFrom(toks, i, names) ==
    IF i > Len(toks) THEN names
    ELSE IF toks[i].type = "Literal" /\ findLitName(names, toks[i].name) < 0
         THEN getLitNamesFrom(toks, i + 1, Append(names, toks[i].name))
         ELSE getLitNamesFrom(toks, i + 1, names)

getLitNames(toks) == getLitNamesFrom(toks, 1, <<>>)

assignLiteralIndexes(toks, names) ==
    [i \in 1..Len(toks) |->
        IF toks[i].type = "Literal" /\ findLitName(names, toks[i].name) >= 0
        THEN [toks[i] EXCEPT !.idx = findLitName(names, toks[i].name)]
        ELSE toks[i]]

\* ----------------------------------------------------------- WorkingValues
\* hasNames: mpNames is not null (it then points at the registry).
\* Faulty variant: initValues starts every literal at true.
WorkingValuesOfAllTrue(names) ==
    [hasNames |-> TRUE,
     mValues |-> [i \in 1..Len(names) |-> TRUE],
     mStartOfThawed |-> IF Len(names) > 0 THEN 0 ELSE -1]

WorkingValuesOf(names) ==
    [hasNames |-> TRUE,
     mValues |-> [i \in 1..Len(names) |-> FALSE],
     mStartOfThawed |-> IF Len(names) > 0 THEN 0 ELSE -1]

WorkingValuesEmpty == [hasNames |-> FALSE, mValues |-> <<>>, mStartOfThawed |-> -1]

\* Faulty variant: the start of the thawed region moves by two.
advanceByTwo(in) == [in EXCEPT !.mStartOfThawed = in.mStartOfThawed + 2]

advance(in) == [in EXCEPT !.mStartOfThawed = in.mStartOfThawed + 1]

\* Faulty variant: the count of thawed literals is one too many.
sizeThawedOffByOne(w) ==
    IF Len(w.mValues) = 0 \/ w.mStartOfThawed < 0 THEN 0
    ELSE Len(w.mValues) - w.mStartOfThawed + 1

sizeThawed(w) ==
    IF Len(w.mValues) = 0 \/ w.mStartOfThawed < 0 THEN 0
    ELSE Len(w.mValues) - w.mStartOfThawed

\* Faulty variant: the value is written to the first thawed literal.
setFirstThawedBool(w, b) == [w EXCEPT !.mValues[w.mStartOfThawed + 1] = b]

setFrozenLastBool(w, b) == [w EXCEPT !.mValues[w.mStartOfThawed] = b]

\* Faulty variant: every literal reads the value of the first one.
getBoolFirst(w, i) == w.mValues[1]

getBool(w, i) == w.mValues[i + 1]

boolToString(b) == IF b THEN "True" ELSE "False"

\* Faulty variant: only the frozen literals are listed.
WorkingValuesToStringFrozenOnly(w, names) ==
    IF ~w.hasNames THEN <<<<"mpNames is null", "">>>>
    ELSE [i \in 1..w.mStartOfThawed |-> <<names[i], boolToString(w.mValues[i])>>]

\* WorkingValues::toString, as the list of name=value pairs it prints.
WorkingValuesToString(w, names) ==
    IF ~w.hasNames THEN <<<<"mpNames is null", "">>>>
    ELSE [i \in 1..Len(names) |-> <<names[i], boolToString(w.mValues[i])>>]

\* -------------------------------------------------------------- EvalResult
\* k = "bool": mError is empty, b is mBoolResult.
\* k = "err" : mError is e; set says whether mBoolResult was ever written
\*             (setBool before a later setError), b its value if so.
\* k = "undef": the cursor was dereferenced at or beyond tokens.end().
\* it is the cursor position the call leaves behind.
RBool(b, it) == [k |-> "bool", b |-> b, set |-> TRUE, e |-> <<>>, it |-> it]
RErr(e, it) == [k |-> "err", b |-> FALSE, set |-> FALSE, e |-> e, it |-> it]
RUndef(it) == [k |-> "undef", b |-> FALSE, set |-> FALSE, e |-> <<>>, it |-> it]

\* result.setError(...) on an object that may already hold a bool.
SetError(r, e, it) == [k |-> "err", b |-> r.b, set |-> r.set, e |-> e, it |-> it]

\* The values result.getBool() can return: mBoolResult, or either value when
\* it was never written (the constructor leaves it uninitialised).
BoolReads(r) == IF r.set THEN {r.b} ELSE BOOLEAN

\* Faulty variant: the negation is dropped.
NotOfDropped(b) == b

NotOf(b) == ~b

ApplyOp(type2, l, r) == IF type2 = "And" THEN l /\ r ELSE l \/ r

\* --------------------------------------------------------------- evaluator
\* evalClause and eval return the SET of results the call can produce: a
\* singleton except where an uninitialised mBoolResult is read.
RECURSIVE evalClause(_, _, _), eval(_, _, _), evalLoop(_, _, _, _)

\* case TT_OpenBracket, after the inner eval returned `right`: it++ and the
\* test for the close bracket (no test against tokens.end() in between).
AfterBracket(toks, right) ==
    IF right.k = "undef" THEN {right}
    ELSE IF right.it + 1 > Len(toks) THEN {RUndef(right.it + 1)}
    ELSE IF toks[right.it + 1].type # "CloseBracket"
         THEN {RErr(<<"Expected Close Bracket">>, right.it + 1)}
    ELSE {[right EXCEPT !.it = right.it + 1]}

\* case TT_Not, after the recursive evalClause returned `right`.
AfterNot(right) ==
    IF right.k = "bool" THEN RBool(NotOf(right.b), right.it) ELSE right

evalClause(toks, it, literals) ==
    LET type == toks[it].type IN
    CASE type = "Unknown" -> {RErr(<<"Encountered Unknown token">>, it)}
      [] type = "And" -> {RErr(<<"A clause cannot begin with an &">>, it)}
      [] type = "Or" -> {RErr(<<"A clause cannot begin with an |">>, it)}
      [] type = "Not" ->
            IF it + 1 > Len(toks)
            THEN {RErr(<<"Expected something after a Not">>, it + 1)}
            ELSE {AfterNot(right) : right \in evalClause(toks, it + 1, literals)}
      [] type = "Literal" ->
            IF toks[it].idx < 0
            THEN {RErr(<<"Unknown Literal %s", toks[it].name>>, it)}
            ELSE {RBool(getBool(literals, toks[it].idx), it)}
      [] type = "OpenBracket" ->
            IF it + 1 > Len(toks)
            THEN {RErr(<<"Expected something after an Open Bracket">>, it + 1)}
            ELSE UNION {AfterBracket(toks, right) : right \in eval(toks, it + 1, literals)}
      [] type = "CloseBracket" -> {RErr(<<"Unexpected Close Bracket">>, it)}

\* Faulty variant: a trailing And/Or ends the expression.
DanglingOpIgnored(result, it) == {[result EXCEPT !.it = it + 1]}

\* The loop body found tokens.end() right after an And/Or.
DanglingOp(result, it) ==
    {SetError(result, <<"Expected something after an And/Or">>, it + 1)}

\* Faulty variant: the chain groups to the right, result op1 (right op2 ...).
LoopBodyRightToLeft(toks, it, result, literals, right) ==
    IF right.k # "bool" THEN {right}
    ELSE {IF rest.k = "bool"
          THEN RBool(ApplyOp(toks[it].type, l, rest.b), rest.it)
          ELSE rest :
            l \in BoolReads(result),
            rest \in evalLoop(toks, right.it + 1, right, literals)}

\* Faulty variant: short-circuit evaluation.  When the left value already
\* decides the result (true before |, false before &) the right clause is
\* not consulted: its error is dropped and the chain ends with the left value.
LoopBodyShortCircuit(toks, it, result, literals, right) ==
    IF result.k = "bool" /\ result.set /\ result.b = (toks[it].type = "Or")
    THEN {[result EXCEPT !.it = Len(toks) + 1]}
    ELSE IF right.k # "bool" THEN {right}
    ELSE UNION {evalLoop(toks, right.it + 1,
                         RBool(ApplyOp(toks[it].type, l, right.b), right.it + 1),
                         literals) : l \in BoolReads(result)}

\* The right-hand clause of the loop body and the combination with result.
LoopBody(toks, it, result, literals, right) ==
    IF right.k # "bool" THEN {right}
    ELSE UNION {evalLoop(toks, right.it + 1,
                         RBool(ApplyOp(toks[it].type, l, right.b), right.it + 1),
                         literals) : l \in BoolReads(result)}

\* Faulty variant: the cursor stays on the close bracket.
UngetOmitted(result, it) == {[result EXCEPT !.it = it]}

\* The loop met a close bracket at `it`: the cursor steps back by one
\* ("Unget") and the value accumulated so far is returned.
Unget(result, it) == {[result EXCEPT !.it = it - 1]}

\* The for loop of eval, entered with the cursor at `it` (a binary operator
\* is expected here) and the value accumulated so far in `result`.
evalLoop(toks, it, result, literals) ==
    IF it = Len(toks) + 1 THEN {[result EXCEPT !.it = it]}
    ELSE IF it > Len(toks) + 1 THEN {RUndef(it)}
    ELSE IF toks[it].type = "CloseBracket" THEN Unget(result, it)
    ELSE IF toks[it].type \notin {"And", "Or"}
         THEN {SetError(result, <<"Unexpected %s -- Only And/Or can connect clauses",
                                 TokenToString(toks[it])>>, it)}
    ELSE IF it + 1 > Len(toks)
         THEN DanglingOp(result, it)
    ELSE UNION {LoopBody(toks, it, result, literals, right) :
                    right \in evalClause(toks, it + 1, literals)}

\* After the first clause: it++, return at tokens.end(), else the loop.  The
\* first clause's result is not tested for an error.
AfterFirst(toks, result, literals) ==
    IF result.k = "undef" THEN {result}
    ELSE evalLoop(toks, result.it + 1, result, literals)

eval(toks, it, literals) ==
    UNION {AfterFirst(toks, result, literals) : result \in evalClause(toks, it, literals)}

evalMain(toks, literals) == eval(toks, 1, literals)

\* ------------------------------------------------------------- SolveResult
SolveResultNew == [mSatisfied |-> FALSE, mError |-> <<"Not run yet">>,
                   mLiterals |-> WorkingValuesEmpty]

SolveSetError(sr, error) == [sr EXCEPT !.mError = error]

setSatisfied(sr, literals) ==
    [mSatisfied |-> TRUE, mError |-> <<>>, mLiterals |-> literals]

setUnsat(sr) == [mSatisfied |-> FALSE, mError |-> <<>>, mLiterals |-> WorkingValuesEmpty]

SolveIsError(sr) == sr.mError # <<>>

\* What the process prints: kind, the message of an error, and the
\* name=value pairs of "Satisfied with ...".
Out(kind, msg, pairs) == [kind |-> kind, msg |-> msg, pairs |-> pairs]

NoOutput == Out("none", <<>>, <<>>)

SolveResultToString(sr, names) ==
    IF SolveIsError(sr) THEN Out("error", sr.mError, <<>>)
    ELSE IF ~sr.mSatisfied THEN Out("Unstatisfied", <<>>, <<>>)
    ELSE Out("Satisfied with", <<>>, WorkingValuesToString(sr.mLiterals, names))

SolveExitCode(sr) ==
    IF SolveIsError(sr) THEN EXIT_CANNOT_PARSE_INPUT
    ELSE IF sr.mSatisfied THEN EXIT_SATISFIABLE
    ELSE EXIT_UNSATISFIABLE

\* ------------------------------------------------------------------ inputs
Names == {"a", "b"}

Alphabet == {Tok(t) : t \in {"Unknown", "And", "Or", "Not", "OpenBracket", "CloseBracket"}}
            \cup {Lit(n) : n \in Names}

AllSequences == UNION {[1..n -> Alphabet] : n \in 1..MaxLen}

\* The example expressions of the README, the usage text and the Makefiles,
\* with x | ~x and a & b & beside them.
Examples ==
    { <<Lit("a"), Tok("And"), Tok("Not"), Lit("b")>>,
      <<Lit("x"), Tok("And"), Tok("Not"), Lit("x")>>,
      <<Lit("x"), Tok("Or"), Tok("Not"), Lit("x")>>,
      <<Lit("mike"), Tok("And"), Lit("sally"), Tok("Or"), Tok("Not"), Lit("peter")>>,
      <<Lit("mike"), Tok("And"), Lit("sally"), Tok("And"), Tok("Not"), Lit("peter")>>,
      <<Tok("Not"), Tok("OpenBracket"), Lit("mike"), Tok("And"), Lit("sally"),
        Tok("CloseBracket"), Tok("Or"), Tok("Not"), Lit("peter100")>>,
      <<Tok("Not"), Tok("OpenBracket"), Lit("mike"), Tok("And"), Lit("sally"),
        Tok("CloseBracket"), Tok("And"), Tok("Not"), Lit("peter100")>>,
      <<Tok("Not"), Tok("OpenBracket"), Lit("a"), Tok("And"), Tok("Not"), Lit("b"),
        Tok("CloseBracket")>>,
      <<Lit("x"), Tok("And"), Tok("Not"), Lit("b"), Tok("And"), Lit("apple")>>,
      <<Lit("a"), Tok("And"), Lit("b")>>,
      <<Lit("a"), Tok("And"), Lit("b"), Tok("And")>> }

\* Chains of three clauses, each a literal or a negated literal:
\* c1 op1 c2 op2 c3.
ChainNames == {"a", "b", "c"}
Ops == {"And", "Or"}
ChainClauses == {<<Lit(n)>> : n \in ChainNames} \cup {<<Tok("Not"), Lit(n)>> : n \in ChainNames}

Chains ==
    { c[1] \o <<Tok(o[1])>> \o c[2] \o <<Tok(o[2])>> \o c[3] :
        c \in [1..3 -> ChainClauses], o \in [1..2 -> Ops] }

\* The grammar of the README, as a recogniser: the position after the
\* clause / expression that starts at i, or 0 when there is none.
RECURSIVE ParseClause(_, _), ParseExpr(_, _), ParseMore(_, _)
ParseClause(toks, i) ==
    IF i > Len(toks) THEN 0
    ELSE IF toks[i].type = "Literal" THEN i + 1
    ELSE IF toks[i].type = "Not" THEN ParseClause(toks, i + 1)
    ELSE IF toks[i].type = "OpenBracket"
         THEN LET p == ParseExpr(toks, i + 1) IN
              IF p = 0 \/ p > Len(toks) THEN 0
              ELSE IF toks[p].type = "CloseBracket" THEN p + 1 ELSE 0
    ELSE 0

ParseMore(toks, p) ==
    IF p = 0 THEN 0
    ELSE IF p <= Len(toks) /\ toks[p].type \in Ops
         THEN ParseMore(toks, ParseClause(toks, p + 1))
    ELSE p

ParseExpr(toks, i) == ParseMore(toks, ParseClause(toks, i))

WellFormed(toks) == ParseExpr(toks, 1) = Len(toks) + 1

\* A well-formed formula followed by a dangling operator.
DanglingSuffixes ==
    { <<Tok("And")>>, <<Tok("Or")>>, <<Tok("And"), Tok("Not")>>, <<Tok("Or"), Tok("Not")>> }

Dangling ==
    { f \o d : f \in {g \in AllSequences \cup Examples : WellFormed(g)},
               d \in DanglingSuffixes }

Formulas == AllSequences \cup Examples \cup Chains \cup Dangling

\* ------------------------------------------------------------------- state
\* pc: "start" (solveMain entered), "check" (registry built), "solve" (inside
\* the top-level solve call), "ub" (the evaluator read beyond the token
\* vector), "exit" (the process has exited with exitCode).
\* stack: the frames of the recursive solve calls, innermost last.
\* ret: <<>>, or <<r>> when the innermost call has just returned r.
\* evalLog: the evalMain invocations so far (the assignment and the result).
Frame(literals) == [literals |-> literals, litNew |-> WorkingValuesEmpty, i |-> 0,
                    at |-> "enter"]

LogEntry(phase, literals, r) ==
    [phase |-> phase, values |-> literals.mValues, sot |-> literals.mStartOfThawed,
     res |-> IF r.k = "bool" THEN boolToString(r.b) ELSE r.k]

Init ==
    /\ tokens \in Formulas
    /\ litnames = <<>>
    /\ pc = "start"
    /\ stack = <<>>
    /\ ret = <<>>
    /\ gnEvals = 0
    /\ evalLog = <<>>
    /\ exitCode = -1
    /\ output = NoOutput
    /\ run = 1
    /\ firstRun = <<>>
    /\ argv = <<>>
    /\ stdin = <<>>
    /\ call = "none"
    /\ mLine = <<>>
    /\ mpPosition = 0

\* ----------------------------------------------------------------- actions
Top == stack[Len(stack)]

Pop == SubSeq(stack, 1, Len(stack) - 1)

ReplaceTop(f) == [stack EXCEPT ![Len(stack)] = f]

\* Faulty variant: the empty registry is not rejected.
BuildRegistryNoExit ==
    /\ pc = "start"
    /\ litnames' = getLitNames(tokens)
    /\ tokens' = assignLiteralIndexes(tokens, litnames')
    /\ pc' = "check"
    /\ UNCHANGED front
    /\ UNCHANGED <<stack, ret, gnEvals, evalLog, run, firstRun, exitCode, output>>

\* solveMain, up to the "no literals" exit: the registry is built and the
\* Literal tokens get their indexes.
BuildRegistry ==
    /\ pc = "start"
    /\ litnames' = getLitNames(tokens)
    /\ tokens' = assignLiteralIndexes(tokens, litnames')
    /\ IF Len(litnames') = 0
       THEN /\ pc' = "exit"
            /\ exitCode' = EXIT_CANNOT_PARSE_INPUT
            /\ output' = Out("There are no literals -- nothing to solve", <<>>, <<>>)
       ELSE /\ pc' = "check"
            /\ UNCHANGED <<exitCode, output>>
    /\ UNCHANGED front
    /\ UNCHANGED <<stack, ret, gnEvals, evalLog, run, firstRun>>

\* solveMain: "Eval once to check syntax", then the call of solve.
SyntaxCheck ==
    /\ pc = "check"
    /\ \E r \in evalMain(tokens, WorkingValuesOf(litnames)) :
        /\ gnEvals' = gnEvals + 1
        /\ evalLog' = Append(evalLog, LogEntry("check", WorkingValuesOf(litnames), r))
        /\ IF r.k = "undef"
           THEN /\ pc' = "ub"
                /\ UNCHANGED <<stack, exitCode, output>>
           ELSE IF r.k = "err"
           THEN /\ pc' = "exit"
                /\ exitCode' = EXIT_CANNOT_PARSE_INPUT
                /\ output' = Out("Formula has invalid syntax -- ", r.e, <<>>)
                /\ UNCHANGED stack
           ELSE /\ pc' = "solve"
                /\ stack' = <<Frame(WorkingValuesOf(litnames))>>
                /\ UNCHANGED <<exitCode, output>>
    /\ UNCHANGED front
    /\ UNCHANGED <<tokens, litnames, ret, run, firstRun>>

\* Faulty variant: a satisfied evaluation is accepted only once every literal is
\* frozen.
SolveEnterResultLeafOnly(literals, r) ==
    IF r.k = "err" THEN <<SolveSetError(SolveResultNew, r.e)>>
    ELSE IF r.b /\ sizeThawed(literals) = 0 THEN <<setSatisfied(SolveResultNew, literals)>>
    ELSE IF sizeThawed(literals) = 0 THEN <<SolveResultNew>>
    ELSE <<>>

\* solve, from its entry to its first return or to the start of the loop.
SolveEnterResult(literals, r) ==
    IF r.k = "err" THEN <<SolveSetError(SolveResultNew, r.e)>>
    ELSE IF r.b THEN <<setSatisfied(SolveResultNew, literals)>>
    ELSE IF sizeThawed(literals) = 0 THEN <<SolveResultNew>>
    ELSE <<>>

SolveEnter ==
    /\ pc = "solve"
    /\ ret = <<>>
    /\ stack # <<>>
    /\ Top.at = "enter"
    /\ \E r \in evalMain(tokens, Top.literals) :
        /\ gnEvals' = gnEvals + 1
        /\ evalLog' = Append(evalLog, LogEntry("solve", Top.literals, r))
        /\ IF r.k = "undef"
           THEN /\ pc' = "ub"
                /\ UNCHANGED <<stack, ret>>
           ELSE /\ pc' = pc
                /\ ret' = SolveEnterResult(Top.literals, r)
                /\ stack' = IF ret' # <<>> THEN Pop
                            ELSE ReplaceTop([Top EXCEPT !.litNew = advance(Top.literals),
                                                        !.at = "loop"])
    /\ UNCHANGED front
    /\ UNCHANGED <<tokens, litnames, exitCode, output, run, firstRun>>

\* Faulty variant: the value chosen for the child is written into the
\* caller's own assignment as well (the branches share one vector).
SolveBranchShared ==
    /\ pc = "solve"
    /\ ret = <<>>
    /\ stack # <<>>
    /\ Top.at = "loop"
    /\ Top.i < gnBools
    /\ LET litNew == setFrozenLastBool(Top.litNew, gBools[Top.i + 1]) IN
         stack' = Append(ReplaceTop([Top EXCEPT !.litNew = litNew,
                                                !.literals.mValues = litNew.mValues]),
                         Frame(litNew))
    /\ UNCHANGED front
    /\ UNCHANGED <<tokens, litnames, pc, ret, gnEvals, evalLog, exitCode, output,
                   run, firstRun>>

\* One pass of the loop body up to the recursive call: the last frozen
\* literal of litNew is set to gBools[i] and solve is called on litNew.
SolveBranch ==
    /\ pc = "solve"
    /\ ret = <<>>
    /\ stack # <<>>
    /\ Top.at = "loop"
    /\ Top.i < gnBools
    /\ LET litNew == setFrozenLastBool(Top.litNew, gBools[Top.i + 1]) IN
         stack' = Append(ReplaceTop([Top EXCEPT !.litNew = litNew]), Frame(litNew))
    /\ UNCHANGED front
    /\ UNCHANGED <<tokens, litnames, pc, ret, gnEvals, evalLog, exitCode, output,
                   run, firstRun>>

\* The recursive call has returned: a satisfied result is returned as it is;
\* otherwise i++, and after the last pass setUnsat is returned.
SolveReturn ==
    /\ pc = "solve"
    /\ ret # <<>>
    /\ stack # <<>>
    /\ IF ret[1].mSatisfied
       THEN /\ stack' = Pop
            /\ ret' = ret
       ELSE IF Top.i + 1 < gnBools
       THEN /\ stack' = ReplaceTop([Top EXCEPT !.i = Top.i + 1])
            /\ ret' = <<>>
       ELSE /\ stack' = Pop
            /\ ret' = <<setUnsat(SolveResultNew)>>
    /\ UNCHANGED front
    /\ UNCHANGED <<tokens, litnames, pc, gnEvals, evalLog, exitCode, output,
                   run, firstRun>>

\* solveMain after the top-level solve returned: print and exit.
Finish ==
    /\ pc = "solve"
    /\ ret # <<>>
    /\ stack = <<>>
    /\ output' = SolveResultToString(ret[1], litnames)
    /\ exitCode' = SolveExitCode(ret[1])
    /\ pc' = "exit"
    /\ UNCHANGED front
    /\ UNCHANGED <<tokens, litnames, stack, ret, gnEvals, evalLog, run, firstRun>>

\* The evaluator dereferenced the cursor at or beyond tokens.end(): the
\* language defines no behaviour.  The tokens read there are whatever the
\* memory holds, so the process may fault, report a syntax error, or take
\* the stray tokens for the rest of a formula and report it satisfied (with
\* any assignment) or unsatisfied; the stray tokens may also differ between
\* the syntax check and an evaluation of the search, so that the root solve
\* call returns the evaluator's error.
UndefinedOutcomes ==
    {[exitCode |-> ExitFault, output |-> Out("fault", <<>>, <<>>)],
     [exitCode |-> EXIT_UNSATISFIABLE, output |-> Out("Unstatisfied", <<>>, <<>>)]}
    \cup {[exitCode |-> EXIT_CANNOT_PARSE_INPUT, output |-> Out("error", m, <<>>)] :
            m \in {<<"Expected Close Bracket">>,
                   <<"Unexpected %s -- Only And/Or can connect clauses", "Unknown">>}}
    \cup {[exitCode |-> EXIT_CANNOT_PARSE_INPUT,
           output |-> Out("Formula has invalid syntax -- ", m, <<>>)] :
            m \in {<<"Expected Close Bracket">>,
                   <<"Unexpected %s -- Only And/Or can connect clauses", "Unknown">>,
                   <<"Unexpected %s -- Only And/Or can connect clauses", "NotHandled">>}}
    \cup {[exitCode |-> EXIT_SATISFIABLE,
           output |-> Out("Satisfied with", <<>>,
                          [i \in 1..Len(litnames) |-> <<litnames[i], boolToString(v[i])>>])] :
            v \in [1..Len(litnames) -> BOOLEAN]}

UndefinedBehaviour ==
    /\ pc = "ub"
    /\ pc' = "exit"
    /\ \E o \in UndefinedOutcomes :
        /\ exitCode' = o.exitCode
        /\ output' = o.output
    /\ UNCHANGED front
    /\ UNCHANGED <<tokens, litnames, stack, ret, gnEvals, evalLog, run, firstRun>>

\* The same formula text is given to a second process.
Rerun ==
    /\ pc = "exit"
    /\ run = 1
    /\ run' = 2
    /\ firstRun' = <<[exitCode |-> exitCode, output |-> output]>>
    /\ tokens' = [i \in 1..Len(tokens) |-> [tokens[i] EXCEPT !.idx = -1]]
    /\ litnames' = <<>>
    /\ pc' = "start"
    /\ stack' = <<>>
    /\ ret' = <<>>
    /\ gnEvals' = 0
    /\ evalLog' = <<>>
    /\ exitCode' = -1
    /\ output' = NoOutput
    /\ UNCHANGED front

Next ==
    \/ BuildRegistry
    \/ SyntaxCheck
    \/ SolveEnter
    \/ SolveBranch
    \/ SolveReturn
    \/ Finish
    \/ UndefinedBehaviour

Spec == Init /\ [][Next]_vars

\* Every step of the program is taken when it can be: the process runs on.
FairSpec == Spec /\ WF_vars(Next)

NextTwice == Next \/ Rerun

SpecTwice == Init /\ [][NextTwice]_vars

\* ------------------------------------------------------- the whole process
\* The characters of the texts enumerated exhaustively.
Chars == {" ", "&", "|", "~", "(", ")", "a", "1", "%"}

Texts == UNION {[1..n -> Chars] : n \in 0..MaxText}

\* Texts of the README and of the Makefile, and texts with line ends.
TextExamples ==
    { <<"a", " ", "&", " ", "~", "b">>,
      <<"~", "(", "a", " ", "&", " ", "~", "b", ")">>,
      <<"a", "b", "1", " ", "|", " ", "1", "a">>,
      <<"a", "\r", "\n">>,
      <<"a", "\n", "&", "\n", "~", "a", "\n">>,
      <<"\r", "\n">> }

\* The command lines: one argument, two arguments, or the -? flag.
ArgLists ==
    {<<t>> : t \in {x \in Texts : Len(x) <= 2}}
    \cup {<<t, u>> : t, u \in {<<>>, <<"a">>, <<"&">>, <<"~", "a">>}}
    \cup {<<<<"-", "?">>>>}

\* pc: "main" (main entered), "line" (parseAndSolveLine entered on mLine),
\* "tokenize" (inside the loop of parseLine), "returned" (parseAndSolveLine
\* has returned to main); solveMain starts at "start".
\* call: which call of parseAndSolveLine is running, "argv" or "stdin".
InitMain ==
    /\ \/ argv = <<>> /\ stdin \in Texts \cup TextExamples
       \/ argv \in ArgLists /\ stdin \in {<<>>, <<" ">>, <<"a">>}
    /\ pc = "main"
    /\ call = "none"
    /\ mLine = <<>>
    /\ mpPosition = 0
    /\ tokens = <<>>
    /\ litnames = <<>>
    /\ stack = <<>>
    /\ ret = <<>>
    /\ gnEvals = 0
    /\ evalLog = <<>>
    /\ exitCode = -1
    /\ output = NoOutput
    /\ run = 1
    /\ firstRun = <<>>

\* main up to its first call of parseAndSolveLine, or usage().
Main ==
    /\ pc = "main"
    /\ IF Len(argv) > 0 /\ argv[1] = <<"-", "?">>
       THEN /\ pc' = "exit"
            /\ exitCode' = EXIT_COMMAND_LINE_FAIL
            /\ output' = Out("Usage: rsolver '<logic-expression>'", <<>>, <<>>)
            /\ UNCHANGED <<call, mLine>>
       ELSE /\ pc' = "line"
            /\ call' = IF Len(argv) > 0 THEN "argv" ELSE "stdin"
            /\ mLine' = IF Len(argv) > 0 THEN flatten(argv) ELSE readFile(stdin)
            /\ UNCHANGED <<exitCode, output>>
    /\ UNCHANGED <<tokens, litnames, stack, ret, gnEvals, evalLog, run, firstRun,
                   argv, stdin, mpPosition>>

\* parseAndSolveLine up to the call of parseLine.
ParseAndSolveLine ==
    /\ pc = "line"
    /\ IF mLine = <<>>
       THEN /\ output' = Out("Contents is empty -- cannot solve", <<>>, <<>>)
            /\ pc' = "returned"
            /\ UNCHANGED <<tokens, mpPosition>>
       ELSE /\ tokens' = <<>>
            /\ mpPosition' = 1
            /\ pc' = "tokenize"
            /\ UNCHANGED output
    /\ UNCHANGED <<litnames, stack, ret, gnEvals, evalLog, exitCode, run, firstRun,
                   argv, stdin, call, mLine>>

\* One pass of the loop of parseLine; at Eof parseLine returns and
\* parseAndSolveLine either gives up or calls solveMain.
ParseLineStep ==
    /\ pc = "tokenize"
    /\ LET g == getToken(mLine, mpPosition) IN
        /\ mpPosition' = g.pos
        /\ IF g.tok.type # "Eof"
           THEN /\ tokens' = Append(tokens, g.tok)
                /\ UNCHANGED <<pc, output>>
           ELSE IF Len(tokens) = 0
           THEN /\ output' = Out("No tokens found -- cannot solve", <<>>, <<>>)
                /\ pc' = "returned"
                /\ UNCHANGED tokens
           ELSE /\ pc' = "start"
                /\ UNCHANGED <<tokens, output>>
    /\ UNCHANGED <<litnames, stack, ret, gnEvals, evalLog, exitCode, run, firstRun,
                   argv, stdin, call, mLine>>

\* main after parseAndSolveLine returned: the call on the command line is
\* followed by the call on stdin, and that one by exit(0).
AfterLine ==
    /\ pc = "returned"
    /\ IF call = "argv"
       THEN /\ call' = "stdin"
            /\ mLine' = readFile(stdin)
            /\ pc' = "line"
            /\ UNCHANGED exitCode
       ELSE /\ pc' = "exit"
            /\ exitCode' = 0
            /\ UNCHANGED <<call, mLine>>
    /\ UNCHANGED <<tokens, litnames, stack, ret, gnEvals, evalLog, output, run,
                   firstRun, argv, stdin, mpPosition>>

NextMain ==
    \/ Main
    \/ ParseAndSolveLine
    \/ ParseLineStep
    \/ AfterLine
    \/ Next

SpecMain == InitMain /\ [][NextMain]_vars

\* ============================================================== properties
NumLits == Len(litnames)

AllValues == [1..NumLits -> BOOLEAN]

\* A complete assignment as a WorkingValues object.
ValuesAs(v) == [hasNames |-> TRUE, mValues |-> v, mStartOfThawed |-> 0]

\* Every evaluation of toks under literals returns the boolean true.
EvaluatesTrue(toks, literals) ==
    \A r \in evalMain(toks, literals) : r.k = "bool" /\ r.b

\* Some evaluation of toks under literals returns the boolean true.
CanEvaluateTrue(toks, literals) ==
    \E r \in evalMain(toks, literals) : r.k = "bool" /\ r.b

\* The top-level solve call has returned (ret holds its result).
SolveDone == pc \in {"solve", "exit"} /\ stack = <<>> /\ ret # <<>>

TypesOf(toks) == [i \in 1..Len(toks) |-> toks[i].type]

\* C1: whenever a solve call returns a satisfied result, evaluating the token
\* sequence under the returned assignment yields the boolean true (for every
\* token sequence with at least one literal).
C1_Soundness ==
    (pc = "solve" /\ ret # <<>> /\ ret[1].mSatisfied)
        => EvaluatesTrue(tokens, ret[1].mLiterals)

\* C2: for a well-formed formula the top-level solve returns the
\* unsatisfiable outcome only if no assignment of the literals makes the
\* evaluator return true, and returns satisfied if some assignment does.
C2_Completeness ==
    (SolveDone /\ WellFormed(tokens)) =>
        /\ ~SolveIsError(ret[1])
        /\ ~ret[1].mSatisfied =>
              \A v \in AllValues : ~CanEvaluateTrue(tokens, ValuesAs(v))
        /\ (\E v \in AllValues : CanEvaluateTrue(tokens, ValuesAs(v))) =>
              ret[1].mSatisfied

\* A well-formed formula over two or more literals was found unsatisfiable
\* after the search had evaluated every leaf.
C2_Witness ==
    /\ SolveDone
    /\ WellFormed(tokens)
    /\ NumLits >= 2
    /\ ~ret[1].mSatisfied
    /\ ~SolveIsError(ret[1])

\* The value of a well-formed formula read strictly left to right, with no
\* precedence between & and |: ((c1 op1 c2) op2 c3) ...
RECURSIVE ClauseValue(_, _, _), ChainValue(_, _, _, _)
ClauseValue(toks, i, v) ==
    IF toks[i].type = "Literal" THEN v[toks[i].idx + 1]
    ELSE IF toks[i].type = "Not" THEN ~ClauseValue(toks, i + 1, v)
    ELSE ChainValue(toks, ParseClause(toks, i + 1), ClauseValue(toks, i + 1, v), v)

ChainValue(toks, p, acc, v) ==
    IF p <= Len(toks) /\ toks[p].type = "And"
    THEN ChainValue(toks, ParseClause(toks, p + 1), acc /\ ClauseValue(toks, p + 1, v), v)
    ELSE IF p <= Len(toks) /\ toks[p].type = "Or"
    THEN ChainValue(toks, ParseClause(toks, p + 1), acc \/ ClauseValue(toks, p + 1, v), v)
    ELSE acc

LeftToRightValue(toks, v) ==
    ChainValue(toks, ParseClause(toks, 1), ClauseValue(toks, 1, v), v)

IsChainOf(toks, names, ops) ==
    /\ TypesOf(toks) = <<"Literal", ops[1], "Literal", ops[2], "Literal">>
    /\ <<toks[1].name, toks[3].name, toks[5].name>> = names

\* C3: binary operators chain strictly left to right with no precedence: for
\* every well-formed formula and every assignment the evaluator returns the
\* left-to-right value, in the syntax check, in every evaluation of the
\* search and under every other assignment; a & b | c is false for a=false,
\* b=true, c=false and a | b & c is false for a=true, b=false, c=false.
C3_LeftToRight ==
    (pc # "start" /\ WellFormed(tokens)) =>
        /\ \A k \in 1..Len(evalLog) :
              evalLog[k].res = boolToString(LeftToRightValue(tokens, evalLog[k].values))
        /\ pc = "check" =>
              \A v \in AllValues :
                evalMain(tokens, ValuesAs(v)) =
                    {RBool(LeftToRightValue(tokens, v), Len(tokens) + 1)}
        /\ (pc = "check" /\ IsChainOf(tokens, <<"a", "b", "c">>, <<"And", "Or">>)) =>
              ~CanEvaluateTrue(tokens, ValuesAs(<<FALSE, TRUE, FALSE>>))
        /\ (pc = "check" /\ IsChainOf(tokens, <<"a", "b", "c">>, <<"Or", "And">>)) =>
              ~CanEvaluateTrue(tokens, ValuesAs(<<TRUE, FALSE, FALSE>>))

\* The search has evaluated a | b & c with a=true and b, c false, and found
\* it false.
C3_Witness ==
    /\ IsChainOf(tokens, <<"a", "b", "c">>, <<"Or", "And">>)
    /\ \E k \in 1..Len(evalLog) :
          /\ evalLog[k].phase = "solve"
          /\ evalLog[k].values = <<TRUE, FALSE, FALSE>>
          /\ evalLog[k].res = "False"

\* The formula x & ~x, for any literal name x.
IsContradiction(toks) ==
    /\ TypesOf(toks) = <<"Literal", "And", "Not", "Literal">>
    /\ toks[1].name = toks[4].name

Logged(phase, values, sot, res) ==
    \E k \in 1..Len(evalLog) :
        evalLog[k] = [phase |-> phase, values |-> values, sot |-> sot, res |-> res]

\* C4: x & ~x is reported unsatisfiable: every evaluation of it is false, the
\* search has evaluated it under x=true and under x=false, the top-level
\* result is neither an error nor satisfied, and the exit code is
\* EXIT_UNSATISFIABLE.
C4_Contradiction ==
    IsContradiction(tokens) =>
        /\ pc # "ub"
        /\ \A k \in 1..Len(evalLog) : evalLog[k].res = "False"
        /\ SolveDone =>
              /\ ~ret[1].mSatisfied
              /\ ~SolveIsError(ret[1])
              /\ Logged("solve", <<TRUE>>, 1, "False")
              /\ Logged("solve", <<FALSE>>, 1, "False")
        /\ pc = "exit" =>
              /\ SolveDone
              /\ exitCode = EXIT_UNSATISFIABLE
              /\ output = Out("Unstatisfied", <<>>, <<>>)

\* The process has exited on x & ~x.
C4_Witness ==
    /\ IsContradiction(tokens)
    /\ tokens[1].name = "x"
    /\ pc = "exit"

\* The formula is true with every literal at its default false.
TrueAtDefault ==
    /\ pc \notin {"start", "ub"}
    /\ EvaluatesTrue(tokens, WorkingValuesOf(litnames))

AllFalsePairs == [i \in 1..NumLits |-> <<litnames[i], "False">>]

\* C5: a formula that is true with every literal at its default false is
\* found satisfied at the root: the search makes a single evaluation (the
\* second of the process, after the syntax check), no solve call ever
\* reaches the loop or holds a frozen literal, and the witness reported
\* gives False to every literal.
C5_EarlyTermination ==
    TrueAtDefault =>
        /\ \A k \in 1..Len(stack) :
              stack[k].at = "enter" /\ stack[k].literals.mStartOfThawed = 0
        /\ Len(stack) <= 1
        /\ gnEvals <= 2
        /\ ret # <<>> =>
              /\ ret[1].mSatisfied
              /\ ret[1].mLiterals = WorkingValuesOf(litnames)
              /\ gnEvals = 2
              /\ evalLog[2] = [phase |-> "solve", values |-> [i \in 1..NumLits |-> FALSE],
                                sot |-> 0, res |-> "True"]
        /\ pc = "exit" =>
              /\ ret # <<>>
              /\ exitCode = EXIT_SATISFIABLE
              /\ output = Out("Satisfied with", <<>>, AllFalsePairs)

\* ~(mike & sally) | ~peter100 has been reported satisfied.
C5_Witness ==
    /\ TypesOf(tokens) = <<"Not", "OpenBracket", "Literal", "And", "Literal",
                           "CloseBracket", "Or", "Not", "Literal">>
    /\ litnames = <<"mike", "sally", "peter100">>
    /\ pc = "exit"
    /\ output.kind = "Satisfied with"

\* The first n values of a log entry (the frozen prefix at depth n).
Prefix(values, n) == SubSeq(values, 1, n)

\* Log entry k is the evaluation of a false-child: its last frozen literal
\* is false.
IsFalseChild(k) ==
    /\ evalLog[k].phase = "solve"
    /\ evalLog[k].sot >= 1
    /\ ~evalLog[k].values[evalLog[k].sot]

\* Log entry j is the evaluation of the true-sibling of entry k, and every
\* evaluation from j up to k is inside the true-sibling's subtree and not
\* satisfied.
TrueSiblingBefore(j, k) ==
    LET d == evalLog[k].sot IN
    /\ evalLog[j].phase = "solve"
    /\ evalLog[j].sot = d
    /\ evalLog[j].values = [evalLog[k].values EXCEPT ![d] = TRUE]
    /\ \A m \in j..(k - 1) :
          /\ evalLog[m].sot >= d
          /\ Prefix(evalLog[m].values, d) = Prefix(evalLog[j].values, d)
          /\ evalLog[m].res # "True"

C6_TrueFirst ==
    \A k \in 1..Len(evalLog) :
        IsFalseChild(k) => \E j \in 1..(k - 1) : TrueSiblingBefore(j, k)

\* Once a solve call has returned satisfied, nothing more is evaluated and
\* every enclosing call returns that same result.
C6_SatisfiedReturnedAsIs ==
    (ret # <<>> /\ ret[1].mSatisfied) => (evalLog' = evalLog /\ ret' = ret)

\* C6: at every branching node the true-child is fully explored before the
\* false-child, and if the true-child returns satisfied the false-child is
\* never evaluated and the true-child's result is returned as it is.
C6_BranchOrder == [](C6_TrueFirst) /\ [][C6_SatisfiedReturnedAsIs]_vars

\* A true-child has returned satisfied to a parent that is in its first
\* pass of the loop, and elsewhere in the run a false-child was evaluated.
C6_Witness ==
    /\ pc = "solve"
    /\ ret # <<>>
    /\ ret[1].mSatisfied
    /\ stack # <<>>
    /\ Top.i = 0
    /\ \E k \in 1..Len(evalLog) : IsFalseChild(k)

\* C7: two runs on the same formula text end with the same outcome (exit
\* code and printed result, the witness included), for every input text.
C7_Determinism ==
    (pc = "exit" /\ run = 2) =>
        /\ exitCode = firstRun[1].exitCode
        /\ output = firstRun[1].output

RECURSIVE Pow2(_)
Pow2(n) == IF n = 0 THEN 1 ELSE 2 * Pow2(n - 1)

SolveEvals == {k \in 1..Len(evalLog) : evalLog[k].phase = "solve"}

LeafEvals == {k \in SolveEvals : evalLog[k].sot = NumLits}

\* The evaluator invocations stay within the bounds: one for the syntax
\* check, at most 2^(n+1)-1 in the search, at most 2^n of them at leaves,
\* and no leaf assignment is evaluated twice.
C8_Bounds ==
    /\ gnEvals = Len(evalLog)
    /\ Cardinality({k \in 1..Len(evalLog) : evalLog[k].phase = "check"}) <= 1
    /\ Cardinality(SolveEvals) <= Pow2(NumLits + 1) - 1
    /\ Cardinality(LeafEvals) <= Pow2(NumLits)
    /\ \A j, k \in LeafEvals : evalLog[j].values = evalLog[k].values => j = k
    /\ \A k \in 1..Len(stack) : stack[k].literals.mStartOfThawed = k - 1

\* C8: the search always terminates, visits at most 2^n fully committed
\* leaf assignments and makes at most 2^(n+1)-1 evaluator invocations, plus
\* one for the syntax check.
C8_BoundedSearch == [](C8_Bounds) /\ ((pc = "solve") ~> (pc = "exit"))

\* A formula over two or more literals was declared unsatisfiable after
\* exactly 2^n leaves and 2^(n+1)-1 evaluations of the search.
C8_Witness ==
    /\ pc = "exit"
    /\ NumLits >= 2
    /\ output.kind = "Unstatisfied"
    /\ Cardinality(LeafEvals) = Pow2(NumLits)
    /\ gnEvals = Pow2(NumLits + 1)

\* The position of the first Literal token named name (0 if there is none).
FirstPos(name) ==
    LET ps == {p \in 1..Len(tokens) : tokens[p].type = "Literal" /\ tokens[p].name = name} IN
    IF ps = {} THEN 0 ELSE CHOOSE p \in ps : \A q \in ps : p <= q

\* C9: a satisfied result carries one value per registry name; it is printed
\* as one name=value pair per registry name, in registry order, and every
\* literal that was still thawed is printed as False.
C9_CompleteAssignment ==
    (ret # <<>> /\ ret[1].mSatisfied) =>
        LET w == ret[1].mLiterals
            pairs == SolveResultToString(ret[1], litnames).pairs IN
        /\ w.hasNames
        /\ Len(w.mValues) = NumLits
        /\ w.mStartOfThawed \in 0..NumLits
        /\ Len(pairs) = NumLits
        /\ \A i \in 1..NumLits :
              /\ pairs[i] = <<litnames[i], boolToString(w.mValues[i])>>
              /\ i > w.mStartOfThawed => pairs[i][2] = "False"
        /\ \A i, j \in 1..NumLits : i < j => FirstPos(litnames[i]) < FirstPos(litnames[j])
        /\ \A p \in 1..Len(tokens) :
              tokens[p].type = "Literal" => \E i \in 1..NumLits : litnames[i] = tokens[p].name
        /\ pc = "exit" => output = Out("Satisfied with", <<>>, pairs)

\* A formula over two literals was reported satisfied with its first literal
\* frozen at true and its second still thawed.
C9_Witness ==
    /\ pc = "exit"
    /\ ret # <<>>
    /\ ret[1].mSatisfied
    /\ NumLits = 2
    /\ ret[1].mLiterals.mStartOfThawed = 1
    /\ output.pairs = <<<<litnames[1], "True">>, <<litnames[2], "False">>>>

\* The tokens are a well-formed formula followed by &, |, & ~ or | ~.
IsDangling(toks) ==
    \E d \in DanglingSuffixes :
        /\ Len(toks) > Len(d)
        /\ TypesOf(SubSeq(toks, Len(toks) - Len(d) + 1, Len(toks))) = TypesOf(d)
        /\ WellFormed(SubSeq(toks, 1, Len(toks) - Len(d)))

\* C10: for a well-formed formula F, the inputs F &, F |, F & ~ and F | ~
\* make the syntax check return an error; the process exits with
\* EXIT_CANNOT_PARSE_INPUT, no search is run and no assignment is printed.
C10_DanglingRejected ==
    IsDangling(tokens) =>
        /\ pc \notin {"solve", "ub"}
        /\ stack = <<>>
        /\ ret = <<>>
        /\ gnEvals <= 1
        /\ pc = "exit" =>
              /\ gnEvals = 1
              /\ evalLog[1].phase = "check"
              /\ evalLog[1].res = "err"
              /\ exitCode = EXIT_CANNOT_PARSE_INPUT
              /\ output.kind = "Formula has invalid syntax -- "
              /\ output.msg \in {<<"Expected something after an And/Or">>,
                                  <<"Expected something after a Not">>}
              /\ output.pairs = <<>>

\* The process has exited on a & b &.
C10_Witness ==
    /\ TypesOf(tokens) = <<"Literal", "And", "Literal", "And">>
    /\ litnames = <<"a", "b">>
    /\ pc = "exit"

\* C11: for every input whose first token is ), the process reports the
\* syntax error "Unexpected Close Bracket" and reports neither Satisfied nor
\* Unstatisfied.
C11_CloseBracketFirst ==
    (tokens[1].type = "CloseBracket" /\ pc = "exit") =>
        /\ output.kind \notin {"Satisfied with", "Unstatisfied"}
        /\ exitCode = EXIT_CANNOT_PARSE_INPUT
        /\ output = Out("Formula has invalid syntax -- ", <<"Unexpected Close Bracket">>, <<>>)

\* The message evalClause sets for a token that cannot begin a clause.
BadClauseMessage(tok) ==
    CASE tok.type = "Unknown" -> <<"Encountered Unknown token">>
      [] tok.type = "And" -> <<"A clause cannot begin with an &">>
      [] tok.type = "Or" -> <<"A clause cannot begin with an |">>
      [] OTHER -> <<>>

\* The clause positions of the top-level expression that hold &, | or an
\* Unknown token: the first clause, or the clause after a well-formed
\* formula and an operator.
BadClausePositions(toks) ==
    {p \in 1..Len(toks) :
        /\ toks[p].type \in {"And", "Or", "Unknown"}
        /\ \/ p = 1
           \/ p >= 3 /\ toks[p - 1].type \in Ops /\ WellFormed(SubSeq(toks, 1, p - 2))}

\* C12: whenever evaluation reaches a clause position holding &, | or an
\* Unknown token, in the first clause of the expression or in a later one,
\* the evaluation of the whole formula is an error carrying that clause's
\* message unchanged: the syntax check fails and the process reports it.
C12_NoRecovery ==
    \A p \in BadClausePositions(tokens) :
        /\ pc \notin {"solve", "ub"}
        /\ (pc = "exit" /\ NumLits > 0) =>
              /\ evalLog[1].res = "err"
              /\ output = Out("Formula has invalid syntax -- ", BadClauseMessage(tokens[p]), <<>>)

\* The number of open brackets of toks[i..] left without a matching close
\* bracket, given that open are pending at i.
RECURSIVE UnmatchedOpen(_, _, _)
UnmatchedOpen(toks, i, open) ==
    IF i > Len(toks) THEN open
    ELSE IF toks[i].type = "OpenBracket" THEN UnmatchedOpen(toks, i + 1, open + 1)
    ELSE IF toks[i].type = "CloseBracket" /\ open > 0 THEN UnmatchedOpen(toks, i + 1, open - 1)
    ELSE UnmatchedOpen(toks, i + 1, open)

HasUnmatchedOpen(toks) == UnmatchedOpen(toks, 1, 0) > 0

\* C13: for every token sequence in which some ( has no matching ), every
\* evaluation returns an error result, so the syntax check fails and no
\* search is run.
C13_UnmatchedOpenRejected ==
    HasUnmatchedOpen(tokens) =>
        /\ \A k \in 1..Len(evalLog) : evalLog[k].res = "err"
        /\ pc \notin {"solve", "ub"}
        /\ (pc = "exit" /\ NumLits > 0) => output.kind = "Formula has invalid syntax -- "

\* C14: no short-circuit.  In L op R the right clause is evaluated whatever
\* the value of L: when R is a clause that cannot be evaluated the result is
\* R's error under every assignment (a | <bad> with a true, a & <bad> with a
\* false), the process reports that error; whenever the evaluation of R is an
\* error the evaluation of L op R is that same error under every assignment;
\* and on a well-formed formula the cursor ends past the last clause under
\* every assignment.
C14_NoShortCircuit ==
    /\ \A p \in BadClausePositions(tokens) :
          p >= 3 =>
            /\ pc \notin {"solve", "ub"}
            /\ pc = "check" =>
                  \A v \in AllValues :
                    \A r \in evalMain(tokens, ValuesAs(v)) :
                        r.k = "err" /\ r.e = BadClauseMessage(tokens[p])
            /\ pc = "exit" =>
                  /\ exitCode = EXIT_CANNOT_PARSE_INPUT
                  /\ output = Out("Formula has invalid syntax -- ",
                                  BadClauseMessage(tokens[p]), <<>>)
    /\ pc = "check" =>
          \A p \in 3..Len(tokens) :
            (tokens[p - 1].type \in Ops /\ WellFormed(SubSeq(tokens, 1, p - 2))) =>
                \A v \in AllValues :
                  \A r \in evalClause(tokens, p, ValuesAs(v)) :
                      r.k = "err" => evalMain(tokens, ValuesAs(v)) = {r}
    /\ (pc = "check" /\ WellFormed(tokens)) =>
          \A v \in AllValues :
            \A r \in evalMain(tokens, ValuesAs(v)) : r.it = Len(tokens) + 1

\* The process has rejected a | <Unknown>, which is an error with a true as
\* with a false.
C14_Witness ==
    /\ TypesOf(tokens) = <<"Literal", "Or", "Unknown">>
    /\ pc = "exit"
    /\ output.msg = <<"Encountered Unknown token">>
    /\ \A r \in evalMain(tokens, ValuesAs(<<TRUE>>)) : r.k = "err"

\* Character i of line continues a literal: it is a letter or digit and
\* some letter before it is joined to it by letters and digits only.
Continues(line, i) ==
    /\ isalnum(line[i])
    /\ \E j \in 1..(i - 1) : isalpha(line[j]) /\ \A k \in j..i : isalnum(line[k])

\* The characters that begin a token: neither whitespace nor inside a literal.
TokenStarts(line) == {i \in 1..Len(line) : ~isspace(line[i]) /\ ~Continues(line, i)}

NthStart(line, n) ==
    CHOOSE s \in TokenStarts(line) : Cardinality({t \in TokenStarts(line) : t < s}) = n - 1

\* The last character of the maximal run of letters and digits from s.
RunEnd(line, s) ==
    CHOOSE e \in s..Len(line) :
        /\ \A k \in s..e : isalnum(line[k])
        /\ e = Len(line) \/ ~isalnum(line[e + 1])

RECURSIVE RunName(_, _, _)
RunName(line, s, e) == IF s > e THEN "" ELSE line[s] \o RunName(line, s + 1, e)

\* The token the rules give to the token start s.
RuleToken(line, s) ==
    CASE line[s] = "&" -> Tok("And")
      [] line[s] = "|" -> Tok("Or")
      [] line[s] = "~" -> Tok("Not")
      [] line[s] = "(" -> Tok("OpenBracket")
      [] line[s] = ")" -> Tok("CloseBracket")
      [] isalpha(line[s]) -> Lit(RunName(line, s, RunEnd(line, s)))
      [] OTHER -> Tok("Unknown")

RuleTokens(line) ==
    [n \in 1..Cardinality(TokenStarts(line)) |-> RuleToken(line, NthStart(line, n))]

\* The tokens without the indexes solveMain gives them later.
Unresolved(toks) == [n \in 1..Len(toks) |-> [toks[n] EXCEPT !.idx = -1]]

C15_TokensAsRules ==
    /\ \A n \in 1..Len(tokens) : tokens[n].type # "Eof"
    /\ pc = "tokenize" =>
          /\ mpPosition \in 1..(Len(mLine) + 1)
          /\ tokens = RuleTokens(SubSeq(mLine, 1, mpPosition - 1))
    /\ (call # "none" /\ pc \notin {"main", "line", "tokenize"}) =>
          Unresolved(tokens) = RuleTokens(mLine)

\* Every pass of the loop of parseLine moves the position forward or ends
\* the loop.
C15_Progress ==
    pc = "tokenize" => (pc' # "tokenize" \/ mpPosition' > mpPosition)

LiteralPositions == {p \in 1..Len(tokens) : tokens[p].type = "Literal"}

\* solveMain has built the registry and resolved the indexes.
RegistryBuilt == pc \in {"check", "solve", "ub", "exit"} /\ NumLits > 0

C16_RegistryWellFormed ==
    RegistryBuilt =>
        /\ \A i, j \in 1..NumLits : litnames[i] = litnames[j] => i = j
        /\ {litnames[i] : i \in 1..NumLits} = {tokens[p].name : p \in LiteralPositions}
        /\ \A i, j \in 1..NumLits : i < j => FirstPos(litnames[i]) < FirstPos(litnames[j])
        /\ \A p \in LiteralPositions :
              /\ 0 <= tokens[p].idx
              /\ tokens[p].idx < NumLits
              /\ litnames[tokens[p].idx + 1] = tokens[p].name

\* Once built, the registry and the resolved tokens stay as they are.
C16_RegistryFixed ==
    pc \in {"check", "solve", "ub", "exit"} => (litnames' = litnames /\ tokens' = tokens)

\* C16: after getLitNames and assignLiteralIndexes the registry holds each
\* distinct literal name exactly once, in order of first occurrence; every
\* Literal token's index idx satisfies 0 <= idx < n and registry[idx] is the
\* token's name; the registry is not changed during evaluation or search.
C16_Registry == [](C16_RegistryWellFormed) /\ [][C16_RegistryFixed]_vars

\* The search is running on a formula in which b occurs before a and a
\* literal occurs more than once.
C16_Witness ==
    /\ pc = "solve"
    /\ litnames = <<"b", "a">>
    /\ Cardinality(LiteralPositions) >= 3
    /\ gnEvals >= 3

\* What the process reported for an input that cannot be parsed.
UnparseableKinds ==
    {"Formula has invalid syntax -- ", "There are no literals -- nothing to solve",
     "Contents is empty -- cannot solve", "No tokens found -- cannot solve"}

\* C17: for every input text the process exits with code 0 exactly when the
\* formula was found satisfiable, with one nonzero code when it was found
\* unsatisfiable, and with another nonzero code when the input cannot be
\* parsed (syntax error, no literals, empty or whitespace-only input).
C17_ExitCodes ==
    (pc = "exit" /\ call # "none") =>
        /\ exitCode = 0 <=> output.kind = "Satisfied with"
        /\ output.kind = "Unstatisfied" => exitCode = EXIT_UNSATISFIABLE
        /\ output.kind \in UnparseableKinds => exitCode = EXIT_CANNOT_PARSE_INPUT
        /\ exitCode \in {0, EXIT_UNSATISFIABLE, EXIT_CANNOT_PARSE_INPUT}
        /\ EXIT_UNSATISFIABLE # 0
        /\ EXIT_CANNOT_PARSE_INPUT # 0
        /\ EXIT_CANNOT_PARSE_INPUT # EXIT_UNSATISFIABLE

\* The value of a well-formed formula under the ordinary reading of the
\* connectives, & binding tighter than |: a disjunction of conjunctions of
\* clauses.  AndEnd is the position after the conjunction that starts at i.
RECURSIVE OrdinaryClause(_, _, _), OrdinaryAnd(_, _, _), OrdinaryExpr(_, _, _), AndEnd(_, _)
OrdinaryClause(toks, i, v) ==
    IF toks[i].type = "Literal" THEN v[toks[i].idx + 1]
    ELSE IF toks[i].type = "Not" THEN ~OrdinaryClause(toks, i + 1, v)
    ELSE OrdinaryExpr(toks, i + 1, v)

OrdinaryAnd(toks, i, v) ==
    LET p == ParseClause(toks, i) IN
    IF p <= Len(toks) /\ toks[p].type = "And"
    THEN OrdinaryClause(toks, i, v) /\ OrdinaryAnd(toks, p + 1, v)
    ELSE OrdinaryClause(toks, i, v)

AndEnd(toks, i) ==
    LET p == ParseClause(toks, i) IN
    IF p <= Len(toks) /\ toks[p].type = "And" THEN AndEnd(toks, p + 1) ELSE p

OrdinaryExpr(toks, i, v) ==
    LET p == AndEnd(toks, i) IN
    IF p <= Len(toks) /\ toks[p].type = "Or"
    THEN OrdinaryAnd(toks, i, v) \/ OrdinaryExpr(toks, p + 1, v)
    ELSE OrdinaryAnd(toks, i, v)

OrdinaryValue(toks, v) == OrdinaryExpr(toks, 1, v)

AllTrueValues == [i \in 1..NumLits |-> TRUE]

\* A well-formed formula built from literals, &, | and brackets only.
IsPositive(toks) == (\A p \in 1..Len(toks) : toks[p].type # "Not") /\ WellFormed(toks)

\* C18: for every well-formed formula without ~ the evaluator's result
\* under the all-true assignment is the ordinary AND/OR value of the
\* formula, which is true, and the search reports the formula satisfied.
C18_PositiveFormula ==
    (pc # "start" /\ IsPositive(tokens)) =>
        /\ pc = "check" =>
              /\ OrdinaryValue(tokens, AllTrueValues)
              /\ evalMain(tokens, ValuesAs(AllTrueValues)) =
                    {RBool(OrdinaryValue(tokens, AllTrueValues), Len(tokens) + 1)}
        /\ pc # "ub"
        /\ \A k \in 1..Len(evalLog) : evalLog[k].res \in {"True", "False"}
        /\ SolveDone => ret[1].mSatisfied
        /\ pc = "exit" =>
              /\ SolveDone
              /\ exitCode = EXIT_SATISFIABLE
              /\ output.kind = "Satisfied with"

\* ( a | b ), a bracketed formula over two literals, has been reported
\* satisfied.
C18_Witness ==
    /\ TypesOf(tokens) = <<"OpenBracket", "Literal", "Or", "Literal", "CloseBracket">>
    /\ tokens[2].name # tokens[4].name
    /\ pc = "exit"
    /\ output.kind = "Satisfied with"

\* A conjunction of distinct literals, each plain or negated once.
IsLiteralConjunction(toks) ==
    /\ \A p \in 1..Len(toks) : toks[p].type \in {"Literal", "And", "Not"}
    /\ WellFormed(toks)
    /\ \A p \in 1..Len(toks) : toks[p].type = "Not" => toks[p + 1].type = "Literal"
    /\ \A p, q \in 1..Len(toks) :
          (toks[p].type = "Literal" /\ toks[q].type = "Literal" /\ toks[p].name = toks[q].name)
              => p = q

\* The literal named name stands in toks without a ~ before it.
IsPlain(toks, name) ==
    \E p \in 1..Len(toks) :
        /\ toks[p].type = "Literal"
        /\ toks[p].name = name
        /\ (p = 1 \/ toks[p - 1].type # "Not")

PlainTrueValues == [i \in 1..NumLits |-> IsPlain(tokens, litnames[i])]

\* C19: for a conjunction of distinct literals, each plain or negated, the
\* only satisfying assignment gives True to the plain literals and False to
\* the negated ones, and the search reports satisfied with exactly that
\* assignment (a & ~b: a=True b=False).
C19_LiteralConjunction ==
    (pc # "start" /\ IsLiteralConjunction(tokens)) =>
        /\ pc = "check" =>
              \A v \in AllValues :
                  evalMain(tokens, ValuesAs(v)) = {RBool(v = PlainTrueValues, Len(tokens) + 1)}
        /\ pc # "ub"
        /\ SolveDone =>
              /\ ret[1].mSatisfied
              /\ ret[1].mLiterals.mValues = PlainTrueValues
        /\ pc = "exit" =>
              /\ SolveDone
              /\ exitCode = EXIT_SATISFIABLE
              /\ output = Out("Satisfied with", <<>>,
                              [i \in 1..NumLits |->
                                  <<litnames[i], boolToString(PlainTrueValues[i])>>])

\* x & ~b & apple has been reported satisfied with x=True b=False apple=True.
C19_Witness ==
    /\ litnames = <<"x", "b", "apple">>
    /\ TypesOf(tokens) = <<"Literal", "And", "Not", "Literal", "And", "Literal">>
    /\ pc = "exit"
    /\ output.pairs = <<<<"x", "True">>, <<"b", "False">>, <<"apple", "True">>>>

\* The formula mike & sally | ~peter.
IsMikeSallyPeter(toks) ==
    /\ TypesOf(toks) = <<"Literal", "And", "Literal", "Or", "Not", "Literal">>
    /\ <<toks[1].name, toks[3].name, toks[6].name>> = <<"mike", "sally", "peter">>

\* C20 as stated: for mike & sally | ~peter the search result is Satisfied
\* and the assignment reported is mike=True sally=True peter=True.
C20_AllTrueReported ==
    (IsMikeSallyPeter(tokens) /\ pc = "exit") =>
        output = Out("Satisfied with", <<>>,
                     <<<<"mike", "True">>, <<"sally", "True">>, <<"peter", "True">>>>)

\* C20, amended: for mike & sally | ~peter the search result is Satisfied
\* and the assignment reported is mike=False sally=False peter=False: the
\* formula is already true at the root, where every literal is thawed and
\* false, so the search makes a single evaluation and freezes nothing.
C20_AllFalseReported ==
    IsMikeSallyPeter(tokens) =>
        /\ pc # "ub"
        /\ SolveDone =>
              /\ ret[1].mSatisfied
              /\ ret[1].mLiterals = WorkingValuesOf(litnames)
              /\ gnEvals = 2
        /\ pc = "exit" =>
              /\ SolveDone
              /\ exitCode = EXIT_SATISFIABLE
              /\ output = Out("Satisfied with", <<>>,
                              <<<<"mike", "False">>, <<"sally", "False">>, <<"peter", "False">>>>)

\* The process has exited on mike & sally | ~peter.
C20_Witness ==
    /\ IsMikeSallyPeter(tokens)
    /\ pc = "exit"
    /\ output.kind = "Satisfied with"

\* The frozen-length and the thawed-length of an assignment.
FrozenLength(w) == w.mStartOfThawed
ThawedLength(w) == sizeThawed(w)

\* The assignments v and w agree on every literal except the one at the
\* 1-based position i.
AgreeExceptAt(v, w, i) ==
    /\ Len(v) = Len(w)
    /\ \A j \in 1..Len(v) : j # i => v[j] = w[j]

\* C21: in every search call 0 <= frozen-length <= n and frozen-length +
\* thawed-length = n; the frozen-length of a call is its depth below the
\* root; a child differs from its parent in exactly one newly frozen
\* literal, the first thawed literal of the parent in registry order.
C21_Partition ==
    \A k \in 1..Len(stack) :
        LET w == stack[k].literals IN
        /\ Len(w.mValues) = NumLits
        /\ 0 <= FrozenLength(w)
        /\ FrozenLength(w) <= NumLits
        /\ FrozenLength(w) + ThawedLength(w) = NumLits
        /\ FrozenLength(w) = k - 1
        /\ k > 1 =>
              LET parent == stack[k - 1].literals IN
              /\ ThawedLength(parent) >= 1
              /\ FrozenLength(w) = FrozenLength(parent) + 1
              /\ AgreeExceptAt(w.mValues, parent.mValues, FrozenLength(parent) + 1)
        /\ stack[k].at = "loop" =>
              /\ FrozenLength(stack[k].litNew) = FrozenLength(w) + 1
              /\ AgreeExceptAt(stack[k].litNew.mValues, w.mValues, FrozenLength(w) + 1)

\* A search call at depth two below the root of a formula over two literals:
\* both literals are frozen.
C21_Witness ==
    /\ pc = "solve"
    /\ NumLits = 2
    /\ Len(stack) = 3
    /\ Top.literals.mStartOfThawed = 2
    /\ sizeThawed(Top.literals) = 0

\* The child running under pass i of its parent's loop holds the parent's
\* assignment with the parent's first thawed literal frozen at gBools[i]:
\* the two children of a node agree on every other literal.
C22_ChildOfPass ==
    \A k \in 2..Len(stack) :
        LET parent == stack[k - 1]
            child == stack[k].literals IN
        /\ parent.at = "loop"
        /\ AgreeExceptAt(child.mValues, parent.literals.mValues,
                         parent.literals.mStartOfThawed + 1)
        /\ child.mValues[parent.literals.mStartOfThawed + 1] = gBools[parent.i + 1]
        /\ child = parent.litNew

\* Every call that is still running after a step holds the assignment it
\* held before the step.
C22_OwnAssignmentKept ==
    \A k \in 1..Len(stack) : k <= Len(stack') => stack'[k].literals = stack[k].literals

\* C22: a search call's own assignment is the same before and after its
\* child calls return, and the two children of a node receive assignments
\* that agree on every literal except the one newly frozen at that node.
C22_BranchIndependence == [](C22_ChildOfPass) /\ [][C22_OwnAssignmentKept]_vars

\* The second child of a node is running: its parent is in the second pass
\* of the loop, after the first child has returned, and still holds the
\* all-false assignment it was called with.
C22_Witness ==
    /\ pc = "solve"
    /\ Len(stack) = 2
    /\ NumLits >= 2
    /\ stack[1].i = 1
    /\ stack[1].literals = WorkingValuesOf(litnames)
    /\ ~stack[2].literals.mValues[1]

\* Every literal from position sot + 1 on (registry index >= sot) is false.
ThawedAreFalse(values, sot) == \A i \in (sot + 1)..Len(values) : ~values[i]

\* C23: at every evaluator invocation, of the syntax check and of every
\* search node, each literal at a registry index >= the start of the thawed
\* region is false; and a Literal token evaluates to the value stored at its
\* index in the assignment, whatever the assignment.
C23_ThawedFalse ==
    /\ \A k \in 1..Len(evalLog) :
          /\ Len(evalLog[k].values) = NumLits
          /\ evalLog[k].sot \in 0..NumLits
          /\ ThawedAreFalse(evalLog[k].values, evalLog[k].sot)
          /\ evalLog[k].phase = "check" => evalLog[k].sot = 0
    /\ \A k \in 1..Len(stack) :
          ThawedAreFalse(stack[k].literals.mValues, stack[k].literals.mStartOfThawed)
    /\ pc = "check" =>
          \A p \in LiteralPositions :
            \A v \in AllValues :
                evalClause(tokens, p, ValuesAs(v)) = {RBool(v[tokens[p].idx + 1], p)}

\* The search has evaluated a formula over two literals with the first
\* frozen at true and the second still thawed.
C23_Witness ==
    /\ NumLits = 2
    /\ \E k \in 1..Len(evalLog) :
          /\ evalLog[k].phase = "solve"
          /\ evalLog[k].sot = 1
          /\ evalLog[k].values = <<TRUE, FALSE>>

\* A search call with no thawed literal left has just evaluated the formula
\* to false and returned: ret holds its result.
DeadEndReturned ==
    /\ pc = "solve"
    /\ ret # <<>>
    /\ Len(evalLog) > 0
    /\ evalLog[Len(evalLog)].phase = "solve"
    /\ evalLog[Len(evalLog)].sot = NumLits
    /\ evalLog[Len(evalLog)].res = "False"
    /\ Len(stack) = NumLits

\* C24: a search call whose evaluation is false and which has no thawed
\* literal left returns the unsatisfiable outcome: a result that is neither
\* satisfied nor an error.
C24_DeadEndLeaf ==
    DeadEndReturned => (~ret[1].mSatisfied /\ ~SolveIsError(ret[1]))

\* C25: when the loop of eval meets a close bracket where an operator is
\* expected it steps the cursor back by one and returns the value
\* accumulated so far; so for every parenthesised clause ( E ) of a
\* well-formed formula, under every assignment, the inner eval returns the
\* value of E with the cursor on the last token of E, and evalClause returns
\* that value with the cursor on the matching close bracket.
C25_Unget ==
    pc = "check" =>
        /\ \A p \in 1..Len(tokens) :
              tokens[p].type = "CloseBracket" =>
                \A b \in BOOLEAN :
                    evalLoop(tokens, p, RBool(b, p), WorkingValuesOf(litnames))
                        = {RBool(b, p - 1)}
        /\ WellFormed(tokens) =>
              \A i \in 1..Len(tokens) :
                tokens[i].type = "OpenBracket" =>
                  LET m == ParseClause(tokens, i) - 1 IN
                  /\ tokens[m].type = "CloseBracket"
                  /\ \A v \in AllValues :
                        /\ eval(tokens, i + 1, ValuesAs(v))
                              = {RBool(ClauseValue(tokens, i, v), m - 1)}
                        /\ evalClause(tokens, i, ValuesAs(v))
                              = {RBool(ClauseValue(tokens, i, v), m)}

\* The syntax check has evaluated ~(a & ~b), to true, and the search runs.
C25_Witness ==
    /\ TypesOf(tokens) = <<"Not", "OpenBracket", "Literal", "And", "Not", "Literal",
                           "CloseBracket">>
    /\ litnames = <<"a", "b">>
    /\ pc = "solve"
    /\ evalLog[1] = [phase |-> "check", values |-> <<FALSE, FALSE>>, sot |-> 0,
                     res |-> "True"]
    /\ evalClause(tokens, 2, ValuesAs(<<TRUE, FALSE>>)) = {RBool(TRUE, 7)}

\* C26: for every non-empty token sequence, grammatical or not, every token
\* read by eval and evalClause is read at a position inside the sequence and
\* the cursor never moves beyond tokens.end(): no evaluation reads outside
\* the token vector.
C26_CursorInBounds ==
    /\ pc # "ub"
    /\ \A k \in 1..Len(evalLog) : evalLog[k].res # "undef"
    /\ pc = "check" =>
          \A v \in AllValues :
            \A r \in evalMain(tokens, ValuesAs(v)) :
                r.k # "undef" /\ r.it \in 1..(Len(tokens) + 1)

\* C27: whenever the top-level evaluation of a token sequence returns a
\* boolean, every token has been consumed: the cursor is at tokens.end(); a
\* close bracket at top level does not end the evaluation with the tokens
\* after it ignored.
C27_WholeInput ==
    pc = "check" =>
        \A v \in AllValues :
            \A r \in evalMain(tokens, ValuesAs(v)) :
                r.k = "bool" => r.it = Len(tokens) + 1

\* The error status of one evaluator result: the boolean kind, or the error
\* with its message.  A result obtained by dereferencing the cursor beyond
\* tokens.end() has no status of its own: the tokens read there are whatever
\* the memory holds at the time of that evaluation.
PossibleStatus(r) ==
    IF r.k = "undef"
    THEN {<<"bool", <<>>>>, <<"err", <<"Expected Close Bracket">>>>,
          <<"err", <<"Unexpected %s -- Only And/Or can connect clauses", "Unknown">>>>}
    ELSE {<<r.k, r.e>>}

ErrorStatuses(toks, v) ==
    UNION {PossibleStatus(r) : r \in evalMain(toks, ValuesAs(v))}

\* C28: for a fixed token sequence the evaluator's error status (error or
\* not, and which message) is one and the same under every assignment; every
\* evaluation logged during the search returns a boolean, and the result the
\* root solve call returns is never an error.
C28_ErrorsTokenOnly ==
    /\ pc = "check" =>
         \E s \in ErrorStatuses(tokens, [i \in 1..NumLits |-> FALSE]) :
           \A v \in AllValues : ErrorStatuses(tokens, v) = {s}
    /\ \A n \in 1..Len(evalLog) :
         evalLog[n].phase = "solve" => evalLog[n].res \in {"True", "False"}
    /\ SolveDone => ~SolveIsError(ret[1])

\* ------------------------------------------- the older search (two lists)
\* The first version of the program keeps the literals as two vectors of
\* (name, value) objects, frozen and thawed, and the evaluator finds a
\* literal's value by comparing names.
Literal(name) == [mName |-> name, mValue |-> FALSE]

\* findLiteral: the position of the first match in frozen followed by thawed
\* (1-based), 0 for the "not found" iterator thawed.end().
findLiteral(frozen, thawed, target) ==
    LET all == frozen \o thawed
        hits == {i \in 1..Len(all) : all[i].mName = target}
    IN IF hits = {} THEN 0 ELSE CHOOSE i \in hits : \A j \in hits : i <= j

RECURSIVE getLiteralsFrom(_, _, _)
getLiteralsFrom(toks, i, allLiterals) ==
    IF i > Len(toks) THEN allLiterals
    ELSE IF toks[i].type = "Literal" /\ findLiteral(<<>>, allLiterals, toks[i].name) = 0
         THEN getLiteralsFrom(toks, i + 1, Append(allLiterals, Literal(toks[i].name)))
         ELSE getLiteralsFrom(toks, i + 1, allLiterals)

getLiterals(toks) == getLiteralsFrom(toks, 1, <<>>)

butFirst(in) == SubSeq(in, 2, Len(in))

appendFirst(base, more) == IF Len(more) = 0 THEN base ELSE Append(base, more[1])

literalsToString(frozen, thawed) ==
    LET all == frozen \o thawed IN
    [i \in 1..Len(all) |-> <<all[i].mName, boolToString(all[i].mValue)>>]

\* The older evalClause and eval are those of the current version line for
\* line, except for the Literal case: findLiteral by name against the two
\* lists, "Unknown Literal" when it returns thawed.end(), else the value of
\* the object found.  Here the lookup is done for every Literal token and the
\* value is read from the two lists laid end to end.
LookedUp(toks, frozen, thawed) ==
    [i \in 1..Len(toks) |->
        IF toks[i].type = "Literal"
        THEN [toks[i] EXCEPT !.idx = findLiteral(frozen, thawed, toks[i].name) - 1]
        ELSE toks[i]]

ListValues(frozen, thawed) ==
    LET all == frozen \o thawed IN
    [hasNames |-> TRUE, mValues |-> [i \in 1..Len(all) |-> all[i].mValue],
     mStartOfThawed |-> Len(frozen)]

ListEval(toks, frozen, thawed) ==
    evalMain(LookedUp(toks, frozen, thawed), ListValues(frozen, thawed))

\* The older SolveResult; ub marks a call whose evaluation dereferenced the
\* cursor beyond tokens.end().
ListResultNew == [mSatisfied |-> FALSE, mError |-> <<"Not run yet">>,
                  mFrozen |-> <<>>, mThawed |-> <<>>, ub |-> FALSE]

ListResultUndefined == [ListResultNew EXCEPT !.ub = TRUE]

ListSetSatisfied(frozen, thawed) ==
    [mSatisfied |-> TRUE, mError |-> <<>>, mFrozen |-> frozen, mThawed |-> thawed,
     ub |-> FALSE]

ListSetUnsat == [ListResultNew EXCEPT !.mError = <<>>]

\* The older solve; like the evaluator it returns the set of results the
\* call can produce.
RECURSIVE ListSolve(_, _, _), ListSolveLoop(_, _, _, _)
ListSolveAfterEval(toks, frozen, thawed, r) ==
    IF r.k = "undef" THEN {ListResultUndefined}
    ELSE IF r.k = "err" THEN {[ListResultNew EXCEPT !.mError = r.e]}
    ELSE IF r.b THEN {ListSetSatisfied(frozen, thawed)}
    ELSE IF Len(thawed) = 0 THEN {ListResultNew}
    ELSE ListSolveLoop(toks, appendFirst(frozen, thawed), butFirst(thawed), 0)

ListSolveLoop(toks, frozenNew, thawedNew, i) ==
    IF i >= gnBools THEN {ListSetUnsat}
    ELSE LET f == [frozenNew EXCEPT ![Len(frozenNew)].mValue = gBools[i + 1]] IN
         UNION {IF c.ub \/ c.mSatisfied THEN {c}
                ELSE ListSolveLoop(toks, f, thawedNew, i + 1) :
                    c \in ListSolve(toks, f, thawedNew)}

ListSolve(toks, frozen, thawed) ==
    UNION {ListSolveAfterEval(toks, frozen, thawed, r) :
                r \in ListEval(toks, frozen, thawed)}

ListResultToString(sr) ==
    IF sr.mError # <<>> THEN Out("error", sr.mError, <<>>)
    ELSE IF ~sr.mSatisfied THEN Out("Unstatisfied", <<>>, <<>>)
    ELSE Out("Satisfied with", <<>>, literalsToString(sr.mFrozen, sr.mThawed))

ListExitCode(sr) ==
    IF sr.mError # <<>> THEN EXIT_CANNOT_PARSE_INPUT
    ELSE IF sr.mSatisfied THEN EXIT_SATISFIABLE
    ELSE EXIT_UNSATISFIABLE

ListFinish(sr) ==
    IF sr.ub THEN UndefinedOutcomes
    ELSE {[exitCode |-> ListExitCode(sr), output |-> ListResultToString(sr)]}

ListAfterCheck(toks, allLiterals, chk) ==
    IF chk.k = "undef" THEN UndefinedOutcomes
    ELSE IF chk.k = "err"
    THEN {[exitCode |-> EXIT_CANNOT_PARSE_INPUT,
           output |-> Out("Formula has invalid syntax -- ", chk.e, <<>>)]}
    ELSE UNION {ListFinish(sr) : sr \in ListSolve(toks, <<>>, allLiterals)}

\* The older solve(tokens): what the process can print and exit with.
ListSolveMain(toks) ==
    LET allLiterals == getLiterals(toks) IN
    IF Len(allLiterals) = 0
    THEN {[exitCode |-> EXIT_CANNOT_PARSE_INPUT,
           output |-> Out("There are no literals -- nothing to solve", <<>>, <<>>)]}
    ELSE UNION {ListAfterCheck(toks, allLiterals, chk) :
                    chk \in ListEval(toks, <<>>, allLiterals)}

\* C29: whatever the current search prints and exits with on a token
\* sequence is what the older search over the frozen and thawed lists
\* prints and exits with on it: the same outcome and, when satisfied, the
\* same name=value pairs in the same order.
C29_SameAsLists ==
    pc = "exit" => ListSolveMain(tokens) = {[exitCode |-> exitCode, output |-> output]}

HasLiteral(toks) == \E i \in 1..Len(toks) : toks[i].type = "Literal"

\* C30: a token sequence without a Literal token makes solveMain report
\* "There are no literals" and exit with the parse-error code before any
\* evaluation and before the search; so every evaluation and the root solve
\* call run with at least one literal, and the root call's assignment has at
\* least one thawed literal.
C30_NoLiteralsRejected ==
    /\ (pc # "start" /\ ~HasLiteral(tokens)) =>
         /\ pc = "exit"
         /\ exitCode = EXIT_CANNOT_PARSE_INPUT
         /\ output = Out("There are no literals -- nothing to solve", <<>>, <<>>)
         /\ gnEvals = 0
         /\ evalLog = <<>>
         /\ stack = <<>>
         /\ ret = <<>>
    /\ (pc \in {"check", "solve", "ub"} \/ gnEvals > 0) =>
         /\ NumLits >= 1
         /\ HasLiteral(tokens)
    /\ \A n \in 1..Len(evalLog) : Len(evalLog[n].values) >= 1
    /\ stack # <<>> =>
         /\ Len(stack[1].literals.mValues) >= 1
         /\ stack[1].literals.mStartOfThawed = 0
         /\ sizeThawed(stack[1].literals) >= 1

C30_Witness ==
    /\ pc = "exit"
    /\ TypesOf(tokens) = <<"OpenBracket", "CloseBracket">>
    /\ exitCode = EXIT_CANNOT_PARSE_INPUT
    /\ output.kind = "There are no literals -- nothing to solve"
    /\ gnEvals = 0

====
